---- MODULE Spec2Model ----
(***************************************************************************)
(* BSDS rotation-curve code (bsds_utils.py, ngc3198_bsds_demo.py).         *)
(*                                                                         *)
(* Numbers are floating-point values m * 10^e with a significand of        *)
(* Digits decimal digits, truncated after every operation, together with   *)
(* the special values numpy and Python produce: inf, nan and complex.  Of  *)
(* a complex value only whether it is zero is kept.                        *)
(***************************************************************************)
EXTENDS Integers, Sequences, FiniteSets, TLC

\* ------------------------------------------------------------------------
\* Floating-point values
\* ------------------------------------------------------------------------

\* significand width of a float, in decimal digits
Digits == 4

RECURSIVE Pow10(_)
Pow10(k) == IF k = 0 THEN 1 ELSE 10 * Pow10(k - 1)

Radix == Pow10(Digits)

Abs(x) == IF x < 0 THEN -x ELSE x

Sgn(x) == IF x < 0 THEN -1 ELSE IF x = 0 THEN 0 ELSE 1

Fin(m, e) == [k |-> "fin", m |-> m, e |-> e]

NaN == [k |-> "nan", m |-> 0, e |-> 0]

Inf(s) == [k |-> "inf", m |-> s, e |-> 0]

\* a complex value: z = 0 for the complex zero, 1 for any other
Cplx(z) == [k |-> "complex", m |-> z, e |-> 0]

RECURSIVE NormAbs(_, _)
NormAbs(m, e) ==
    IF m = 0 THEN <<0, 0>>
    ELSE IF m >= Radix THEN NormAbs(m \div 10, e + 1)
    ELSE IF m < Radix \div 10 THEN NormAbs(m * 10, e - 1)
    ELSE <<m, e>>

\* the float nearest to m * 10^e in magnitude-truncating rounding
Norm(m, e) ==
    LET n == NormAbs(Abs(m), e)
    IN  Fin(Sgn(m) * n[1], n[2])

\* an integer literal as a float
Float(x) == Norm(x, 0)

Zero == Float(0)

One == Float(1)

\* a real or complex zero
IsZero(a) == a.k \in {"fin", "complex"} /\ a.m = 0

\* a finite real or complex value
IsNumber(a) == a.k \in {"fin", "complex"}

FNeg(a) ==
    IF a.k = "fin" THEN Fin(-a.m, a.e)
    ELSE IF a.k = "inf" THEN Inf(-a.m)
    ELSE a

FMul(a, b) ==
    IF a.k = "complex" \/ b.k = "complex"
    THEN Cplx(IF IsNumber(a) /\ IsNumber(b) /\ (IsZero(a) \/ IsZero(b))
              THEN 0 ELSE 1)
    ELSE IF a.k = "nan" \/ b.k = "nan" THEN NaN
    ELSE IF a.k = "inf" \/ b.k = "inf"
         THEN IF a.m = 0 \/ b.m = 0 THEN NaN ELSE Inf(Sgn(a.m) * Sgn(b.m))
    ELSE Norm(a.m * b.m, a.e + b.e)

\* numpy division: x/0 is inf, 0/0 is nan, neither raises
FDiv(a, b) ==
    IF a.k = "complex" \/ b.k = "complex"
    THEN Cplx(IF IsZero(a) /\ IsNumber(b) /\ ~IsZero(b) THEN 0 ELSE 1)
    ELSE IF a.k = "nan" \/ b.k = "nan" THEN NaN
    ELSE IF a.k = "inf"
         THEN IF b.k = "inf" THEN NaN
              ELSE Inf(IF b.m < 0 THEN -a.m ELSE a.m)
    ELSE IF b.k = "inf" THEN Zero
    ELSE IF b.m = 0
         THEN IF a.m = 0 THEN NaN ELSE Inf(Sgn(a.m))
    ELSE Norm(Sgn(a.m) * Sgn(b.m) * ((Abs(a.m) * Radix) \div Abs(b.m)),
              a.e - b.e - Digits)

\* sum of two finite floats
FinAdd(a, b) ==
    IF a.m = 0 THEN b
    ELSE IF b.m = 0 THEN a
    ELSE LET hi == IF a.e >= b.e THEN a ELSE b
             lo == IF a.e >= b.e THEN b ELSE a
             d  == hi.e - lo.e
         IN  IF d > Digits THEN hi
             ELSE Norm(hi.m * Pow10(d) + lo.m, lo.e)

FAdd(a, b) ==
    IF a.k = "complex" \/ b.k = "complex"
    THEN Cplx(IF IsZero(a) /\ IsZero(b) THEN 0 ELSE 1)
    ELSE IF a.k = "nan" \/ b.k = "nan" THEN NaN
    ELSE IF a.k = "inf"
         THEN IF b.k = "inf" /\ b.m # a.m THEN NaN ELSE a
    ELSE IF b.k = "inf" THEN b
    ELSE FinAdd(a, b)

FSub(a, b) == FAdd(a, FNeg(b))

\* a > b on floats; every comparison with nan is false
FGreater(a, b) ==
    /\ a.k \in {"fin", "inf"}
    /\ b.k \in {"fin", "inf"}
    /\ IF a.k = "inf" THEN a.m > 0 /\ ~(b.k = "inf" /\ b.m > 0)
       ELSE IF b.k = "inf" THEN b.m < 0
       ELSE FinAdd(a, FNeg(b)).m > 0

\* largest x in lo..hi with x*x <= v
RECURSIVE ISqrtIn(_, _, _)
ISqrtIn(v, lo, hi) ==
    IF lo = hi THEN lo
    ELSE LET mid == (lo + hi + 1) \div 2
         IN  IF mid * mid <= v THEN ISqrtIn(v, mid, hi)
             ELSE ISqrtIn(v, lo, mid - 1)

ISqrt(v) == ISqrtIn(v, 0, 40000)

\* numpy sqrt: nan for a negative real, complex for a complex argument
FSqrt(a) ==
    IF a.k = "complex" THEN a
    ELSE IF a.k = "nan" THEN NaN
    ELSE IF a.m < 0 THEN NaN
    ELSE IF a.k = "inf" THEN a
    ELSE LET odd == a.e % 2 # 0
             m2  == IF odd THEN a.m * 10 ELSE a.m
             e2  == IF odd THEN a.e - 1 ELSE a.e
         IN  Norm(ISqrt(m2 * Radix), (e2 - Digits) \div 2)

\* a ** n for an integer n >= 0
RECURSIVE FPowInt(_, _)
FPowInt(a, n) ==
    IF n = 0 THEN One
    ELSE IF n % 2 = 0
         THEN LET h == FPowInt(a, n \div 2) IN FMul(h, h)
    ELSE FMul(a, FPowInt(a, n - 1))

\* the integer part of a finite float y >= 0
IntPart(y) ==
    IF y.m = 0 THEN 0
    ELSE IF y.e >= 0 THEN y.m * Pow10(y.e)
    ELSE IF -y.e >= Digits THEN 0
    ELSE y.m \div Pow10(-y.e)

\* sum of f^j / j! from term j on, until a term no longer changes the sum
RECURSIVE ExpSeries(_, _, _, _)
ExpSeries(f, term, j, acc) ==
    LET next == FinAdd(acc, term)
    IN  IF next = acc THEN acc
        ELSE ExpSeries(f, FDiv(FMul(term, f), Float(j)), j + 1, next)

\* Euler's number
E1 == ExpSeries(One, One, 1, Zero)

\* e^y for y = n + f, n the integer part of y
ExpSplit(y, n) ==
    FMul(FPowInt(E1, n), ExpSeries(FinAdd(y, FNeg(Float(n))), One, 1, Zero))

\* e^y for a finite y >= 0
ExpAbs(y) == ExpSplit(y, IntPart(y))

\* numpy exp
FExp(x) ==
    IF x.k = "complex" THEN Cplx(1)
    ELSE IF x.k = "nan" THEN NaN
    ELSE IF x.k = "inf" THEN (IF x.m > 0 THEN x ELSE Zero)
    ELSE IF x.m < 0 THEN FDiv(One, ExpAbs(FNeg(x)))
    ELSE ExpAbs(x)

\* ------------------------------------------------------------------------
\* numpy array helpers
\* ------------------------------------------------------------------------

\* np.diff with its operands swapped: a[i] - a[i+1]
np_diff_swapped(a) == [i \in 1..(Len(a) - 1) |-> FSub(a[i], a[i + 1])]

\* np.diff
np_diff(a) == [i \in 1..(Len(a) - 1) |-> FSub(a[i + 1], a[i])]

\* np.cumsum: a strict left-to-right running sum
RECURSIVE np_cumsum(_)
np_cumsum(a) ==
    IF Len(a) = 0 THEN <<>>
    ELSE LET front == np_cumsum(SubSeq(a, 1, Len(a) - 1))
         IN  Append(front,
                    IF Len(a) = 1 THEN a[1] ELSE FAdd(front[Len(a) - 1], a[Len(a)]))

\* np.sum
RECURSIVE np_sum(_)
np_sum(a) ==
    IF Len(a) = 0 THEN Zero
    ELSE FAdd(np_sum(SubSeq(a, 1, Len(a) - 1)), a[Len(a)])

\* ------------------------------------------------------------------------
\* bsds_utils.py
\* ------------------------------------------------------------------------

\* G = 4.3009e-6
G == Fin(4300, -9)

\* k0_default = 0.069
k0_default == Fin(6900, -5)

\* the literal 5e10 of k_bsds
MbScale == Fin(5000, 7)

\* the literal 1e-6 of V_bsds
r_floor == Fin(1000, -9)

Half == Fin(5000, -4)

Ok(v) == [exc |-> "none", val |-> v]

Raise(e) == [exc |-> e, val |-> <<>>]

S_screen(r, rs, n) ==
    [i \in 1..Len(r) |-> FSub(One, FExp(FNeg(FPowInt(FDiv(r[i], rs), n))))]

\* x ** (-0.5) on a Python float: ZeroDivisionError at 0, a complex value
\* for x < 0
PyPowNegHalf(x) ==
    IF x.m = 0 THEN Raise("ZeroDivisionError")
    ELSE IF x.m < 0 THEN Ok(Cplx(1))
    ELSE Ok(FDiv(One, FSqrt(x)))

\* k0 * p, p the outcome of the power
Coupling(k0, p) == IF p.exc # "none" THEN p ELSE Ok(FMul(k0, p.val))

k_bsds(Mb, k0) == Coupling(k0, PyPowNegHalf(FDiv(Mb, MbScale)))

\* the integral without its leading [0.0]
Trapz_no_origin(S, dr) ==
    np_cumsum([i \in 1..Len(dr) |->
                  FMul(FMul(Half, FAdd(S[i + 1], S[i])), dr[i])])

\* I = np.concatenate([[0.0], np.cumsum(0.5*(S[1:]+S[:-1])*dr)])
Trapz(S, dr) ==
    <<Zero>> \o np_cumsum([i \in 1..Len(dr) |->
                              FMul(FMul(Half, FAdd(S[i + 1], S[i])), dr[i])])

\* the cumulative trapezoidal integral I of the screening profile
CumTrapz(r, rs, n) == Trapz(S_screen(r, rs, n), np_diff(r))

\* k * Mb * I, k the outcome of k_bsds(Mb)
MassProfile(k, Mb, I) ==
    IF k.exc # "none" THEN k
    ELSE Ok([i \in 1..Len(I) |-> FMul(FMul(k.val, Mb), I[i])])

M_bsds_enclosed(r, Mb, rs, n) ==
    MassProfile(k_bsds(Mb, k0_default), Mb, CumTrapz(r, rs, n))

\* r used as the divisor as it is, without the floor
r_safe_no_floor(r) == r

\* r_safe = np.where(r>0, r, 1e-6)
r_safe(r) == [i \in 1..Len(r) |-> IF FGreater(r[i], Zero) THEN r[i] ELSE r_floor]

\* np.sqrt(G * Menc / r_safe), broadcast over the grid
Velocity(rsafe, Menc) ==
    IF Menc.exc # "none" THEN Menc
    ELSE Ok([i \in 1..Len(rsafe) |->
                FSqrt(FDiv(FMul(G, Menc.val[i]), rsafe[i]))])

V_bsds(r, Mb, rs, n) == Velocity(r_safe(r), M_bsds_enclosed(r, Mb, rs, n))

\* V_bary = sqrt(Vgas**2 + Vdisk**2 + Vbul**2)
BaryonicVelocity(Vgas, Vdisk, Vbul) ==
    [i \in 1..Len(Vgas) |->
        FSqrt(FAdd(FAdd(FMul(Vgas[i], Vgas[i]), FMul(Vdisk[i], Vdisk[i])),
                   FMul(Vbul[i], Vbul[i])))]

\* V_tot = sqrt(V_bary**2 + V_bs**2)
TotalVelocity(Vb, Vs) ==
    [i \in 1..Len(Vb) |->
        FSqrt(FAdd(FMul(Vb[i], Vb[i]), FMul(Vs[i], Vs[i])))]

\* the sum of the normalised residuals, not squared
ChiSquared_not_squared(Vt, Vobs, errV) ==
    np_sum([i \in 1..Len(Vt) |-> FDiv(FSub(Vt[i], Vobs[i]), errV[i])])

\* chi2 = np.sum(((V_tot - Vobs) / errV)**2)
ChiSquared(Vt, Vobs, errV) ==
    np_sum([i \in 1..Len(Vt) |->
               FPowInt(FDiv(FSub(Vt[i], Vobs[i]), errV[i]), 2)])

\* ------------------------------------------------------------------------
\* ngc3198_bsds_demo.py
\* ------------------------------------------------------------------------

\* k0 = 0.03
demo_k0 == Fin(3000, -5)

\* Mb = 6.5e10
demo_Mb == Fin(6500, 7)

demo_k_bsds(Mb) == Coupling(demo_k0, PyPowNegHalf(FDiv(Mb, MbScale)))

demo_M_bsds_enclosed(r, Mb, rs, n) ==
    MassProfile(demo_k_bsds(Mb), Mb, CumTrapz(r, rs, n))

demo_V_bsds(r, Mb, rs, n) ==
    Velocity(r_safe(r), demo_M_bsds_enclosed(r, Mb, rs, n))

\* ------------------------------------------------------------------------
\* Inputs
\* ------------------------------------------------------------------------

\* most data rows of a table file
MaxRows == 2

\* longest grid handed to M_bsds_enclosed or V_bsds directly
MaxLen == 3

SeqsUpTo(S, lo, hi) == UNION {[1..l -> S] : l \in lo..hi}

FloatsOf(S) == {Float(x) : x \in S}

TableRadii == FloatsOf({0, 5, 10})

TableErrs == FloatsOf({-2, 0, 2})

TableVobs == FloatsOf({5, 13})

\* one data line of a rotmod table: radius, observed velocity, its error,
\* gas, disk and bulge contributions
Rows ==
    {[R |-> a, Vobs |-> b, errV |-> c, Vgas |-> Float(3), Vdisk |-> Float(4),
      Vbul |-> Float(12)] : a \in TableRadii, b \in TableVobs, c \in TableErrs}

\* the well-formed table files: five or six numeric columns, at least one row
Tables == [ncols : {5, 6}, rows : SeqsUpTo(Rows, 1, MaxRows)]

NoTable == [ncols |-> 0, rows |-> <<>>]

MbValues == {FNeg(MbScale), Zero, MbScale, Fin(2000, 8)}

GridRadii == FloatsOf({-5, 0, 5, 10, 15})

Grids == SeqsUpTo(GridRadii, 0, MaxLen)

RsValues == FloatsOf({5, 10})

NValues == {1, 6}

\* a caller's k0 keyword: absent, or a value
K0Values == {[given |-> FALSE, val |-> k0_default],
             [given |-> TRUE, val |-> FMul(Float(2), k0_default)]}

Column(df, c) == [i \in 1..Len(df.rows) |-> df.rows[i][c]]

\* ------------------------------------------------------------------------
\* State
\* ------------------------------------------------------------------------

VARIABLES
    entry,    \* what the caller runs: run_bsds, the demo script, or a function
    pc,       \* position in it
    args,     \* the call's arguments
    disk,     \* the table file: whether it exists, and its content
    df,       \* the loaded table
    V_bary,
    V_bs,
    V_tot,
    chi2,
    fig,      \* the matplotlib figure: "none" or "drawn"
    written,  \* the figure files written
    exc,      \* the exception that ended the run, or "none"
    ret       \* the value returned

vars == <<entry, pc, args, disk, df, V_bary, V_bs, V_tot, chi2, fig, written,
          exc, ret>>

Scripts == {"run_bsds", "demo"}

Functions == {"M_bsds_enclosed", "V_bsds"}

DatName == <<"NGC3198_rotmod", ".dat">>

Init ==
    /\ entry \in Scripts \cup Functions
    /\ pc = "start"
    /\ IF entry = "run_bsds"
       THEN args \in [filename : {DatName}, Mb : MbValues, rs : {Float(10)},
                      n : {6}, save : BOOLEAN]
       ELSE IF entry = "demo"
       THEN args = [filename |-> DatName, Mb |-> demo_Mb, rs |-> Float(10),
                    n |-> 6, save |-> TRUE]
       ELSE args \in [r : Grids, Mb : MbValues, rs : RsValues, n : NValues,
                      k0 : K0Values]
    /\ IF entry \in Scripts
       THEN disk \in {[exists |-> FALSE, table |-> NoTable]}
                     \cup [exists : {TRUE}, table : Tables]
       ELSE disk = [exists |-> FALSE, table |-> NoTable]
    /\ df = NoTable
    /\ V_bary = <<>>
    /\ V_bs = <<>>
    /\ V_tot = <<>>
    /\ chi2 = Zero
    /\ fig = "none"
    /\ written = {}
    /\ exc = "none"
    /\ ret = <<>>

\* ------------------------------------------------------------------------
\* run_bsds and the demo script, step by step
\* ------------------------------------------------------------------------

\* if not os.path.isfile(filename): raise FileNotFoundError
CheckFile ==
    /\ entry \in Scripts
    /\ pc = "start"
    /\ IF disk.exists
       THEN pc' = "checked" /\ exc' = exc
       ELSE pc' = "raised" /\ exc' = "FileNotFoundError"
    /\ UNCHANGED <<entry, args, disk, df, V_bary, V_bs, V_tot, chi2, fig,
                   written, ret>>

\* pd.read_csv and the column assignments; a missing bulge column is zeros
LoadTable ==
    /\ entry \in Scripts
    /\ pc = "checked"
    /\ df' = [disk.table EXCEPT
                !.rows = [i \in 1..Len(@) |->
                             IF disk.table.ncols > 5 THEN @[i]
                             ELSE [@[i] EXCEPT !.Vbul = Zero]]]
    /\ pc' = "loaded"
    /\ UNCHANGED <<entry, args, disk, V_bary, V_bs, V_tot, chi2, fig, written,
                   exc, ret>>

\* the assignments of V_bary, V_bs and V_tot; vs is the outcome of V_bsds
SetCurves(vb, vs) ==
    /\ V_bary' = vb
    /\ IF vs.exc # "none"
       THEN /\ pc' = "raised"
            /\ exc' = vs.exc
            /\ UNCHANGED <<V_bs, V_tot>>
       ELSE /\ pc' = "curves"
            /\ exc' = exc
            /\ V_bs' = vs.val
            /\ V_tot' = TotalVelocity(vb, vs.val)

\* V_bary, V_bs, V_tot
Curves ==
    /\ entry \in Scripts
    /\ pc = "loaded"
    /\ SetCurves(BaryonicVelocity(Column(df, "Vgas"), Column(df, "Vdisk"),
                                  Column(df, "Vbul")),
                 IF entry = "demo"
                 THEN demo_V_bsds(Column(df, "R"), args.Mb, args.rs, args.n)
                 ELSE V_bsds(Column(df, "R"), args.Mb, args.rs, args.n))
    /\ UNCHANGED <<entry, args, disk, df, chi2, fig, written, ret>>

\* chi2 = np.sum(((V_tot - Vobs) / errV)**2)
FitStatistic ==
    /\ entry \in Scripts
    /\ pc = "curves"
    /\ chi2' = ChiSquared(V_tot, Column(df, "Vobs"), Column(df, "errV"))
    /\ pc' = "chi2"
    /\ UNCHANGED <<entry, args, disk, df, V_bary, V_bs, V_tot, fig, written,
                   exc, ret>>

\* plt.figure ... plt.tight_layout
Plot ==
    /\ entry \in Scripts
    /\ pc = "chi2"
    /\ fig' = "drawn"
    /\ pc' = "plotted"
    /\ UNCHANGED <<entry, args, disk, df, V_bary, V_bs, V_tot, chi2, written,
                   exc, ret>>

\* the methods of str that the output-name line could call
StrMethods == {"replace", "removesuffix", "rstrip", "strip", "split"}

\* the method the output-name line calls on filename
OutfileMethod == "replacegg"

\* str.replace over a file name kept as its parts
Replace(name, old, new) ==
    [i \in 1..Len(name) |-> IF name[i] = old THEN new ELSE name[i]]

\* run_bsds from the output name on: name, savefig, show, report, return
Finish ==
    /\ entry = "run_bsds"
    /\ pc = "plotted"
    /\ IF OutfileMethod \notin StrMethods
       THEN /\ pc' = "raised"
            /\ exc' = "AttributeError"
            /\ UNCHANGED <<written, ret>>
       ELSE LET outfile == Replace(args.filename, ".dat", "_BSDS.png")
            IN  /\ written' = IF args.save THEN written \cup {outfile}
                              ELSE written
                /\ ret' = <<outfile, chi2>>
                /\ pc' = "returned"
                /\ exc' = exc
    /\ UNCHANGED <<entry, args, disk, df, V_bary, V_bs, V_tot, chi2, fig>>

\* the demo script's plt.savefig(output_fn) and exit
DemoSave ==
    /\ entry = "demo"
    /\ pc = "plotted"
    /\ written' = written \cup {<<"NGC3198_BSDS_SPARC", ".png">>}
    /\ pc' = "exited"
    /\ UNCHANGED <<entry, args, disk, df, V_bary, V_bs, V_tot, chi2, fig, exc,
                   ret>>

\* ------------------------------------------------------------------------
\* Direct calls of the library functions
\* ------------------------------------------------------------------------

\* M_bsds_enclosed(r, Mb, rs, n) and V_bsds(r, Mb, rs, n) take no k0:
\* a k0 keyword is a TypeError
Call(f) ==
    IF args.k0.given THEN Raise("TypeError")
    ELSE IF f = "M_bsds_enclosed"
         THEN M_bsds_enclosed(args.r, args.Mb, args.rs, args.n)
    ELSE V_bsds(args.r, args.Mb, args.rs, args.n)

\* the call ends: a value returned or an exception raised
Return(res) ==
    /\ exc' = res.exc
    /\ ret' = res.val
    /\ pc' = IF res.exc = "none" THEN "returned" ELSE "raised"

CallEnclosedMass ==
    /\ entry = "M_bsds_enclosed"
    /\ pc = "start"
    /\ Return(Call(entry))
    /\ UNCHANGED <<entry, args, disk, df, V_bary, V_bs, V_tot, chi2, fig,
                   written>>

CallVelocity ==
    /\ entry = "V_bsds"
    /\ pc = "start"
    /\ Return(Call(entry))
    /\ UNCHANGED <<entry, args, disk, df, V_bary, V_bs, V_tot, chi2, fig,
                   written>>

Next ==
    \/ CheckFile
    \/ LoadTable
    \/ Curves
    \/ FitStatistic
    \/ Plot
    \/ Finish
    \/ DemoSave
    \/ CallEnclosedMass
    \/ CallVelocity

Spec == Init /\ [][Next]_vars
\* ------------------------------------------------------------------------
\* Properties
\* ------------------------------------------------------------------------

Pos(a) == a.k = "fin" /\ a.m > 0

NonNeg(a) == a.k = "fin" /\ a.m >= 0

AllPos(s) == \A i \in 1..Len(s) : Pos(s[i])

AllNonNeg(s) == \A i \in 1..Len(s) : NonNeg(s[i])

NonDecreasing(s) == \A i \in 1..(Len(s) - 1) : ~FGreater(s[i], s[i + 1])

\* a grid the data model allows: two or more non-negative radii in order
ProperGrid(r) == Len(r) >= 2 /\ AllNonNeg(r) /\ NonDecreasing(r)

\* the curves have been computed (V_bs, V_tot assigned)
CurvesDone ==
    pc \in {"curves", "chi2", "plotted", "returned", "exited"}
        \/ exc = "AttributeError"

\* the chi-squared sum has been computed
ChiDone ==
    pc \in {"chi2", "plotted", "returned", "exited"} \/ exc = "AttributeError"

Ended == pc \in {"returned", "raised", "exited"}

\* C1: a table with an uncertainty err[i] <= 0 is rejected before the
\* chi-squared sum is computed, and no evaluation ends with chi2 inf or nan.
C1_BadErrRejected ==
    (entry \in Scripts /\ Pos(args.Mb) /\ ProperGrid(Column(df, "R"))
        /\ ~AllPos(Column(df, "errV")))
        => (~ChiDone /\ chi2.k \notin {"inf", "nan"})

\* C2: a baryonic mass Mb <= 0 is rejected with an error; no curve and no
\* profile computed from it is ever produced.
C2_BadMassRejected ==
    /\ (entry \in Scripts /\ ~Pos(args.Mb)) => ~CurvesDone
    /\ (entry \in Functions /\ ~Pos(args.Mb) /\ ProperGrid(args.r))
        => pc # "returned"

\* C3: a grid shorter than 2 or not in non-decreasing order is rejected
\* before the enclosed-mass integration; nothing is computed from it.
C3_BadGridRejected ==
    /\ (entry \in Scripts /\ df # NoTable /\ Pos(args.Mb)
            /\ (Len(df.rows) < 2 \/ ~NonDecreasing(Column(df, "R"))))
        => ~CurvesDone
    /\ (entry \in Functions /\ Pos(args.Mb)
            /\ (Len(args.r) < 2 \/ ~NonDecreasing(args.r)))
        => pc # "returned"

\* C4: the coupling normalization k0 is a per-call argument of the
\* enclosed-mass and velocity computations: a call that supplies k0 returns
\* the profile scaled by that k0.
C4_CallerSuppliesK0 ==
    (entry \in Functions /\ args.k0.given /\ Ended /\ Pos(args.Mb)) =>
        /\ pc = "returned"
        /\ entry = "M_bsds_enclosed" =>
              ret = MassProfile(k_bsds(args.Mb, args.k0.val), args.Mb,
                                CumTrapz(args.r, args.rs, args.n)).val

\* a valid dataset and parameter set for run_bsds
ValidRun ==
    /\ disk.exists
    /\ ProperGrid(Column(disk.table, "R"))
    /\ AllPos(Column(disk.table, "errV"))
    /\ Pos(args.Mb)

\* C5: for a valid dataset the orchestrator returns all four parts of the
\* fit: V_bary, V_bs, V_tot and chi2.
C5_ReturnsFourParts ==
    (entry = "run_bsds" /\ ValidRun /\ Ended) =>
        (pc = "returned" /\ ret = <<V_bary, V_bs, V_tot, chi2>>)

\* C6: for non-negative, non-decreasing radii and Mb > 0 the enclosed-mass
\* profile starts at 0, is nowhere negative and never decreases.
C6_ProfileMonotone ==
    (entry = "M_bsds_enclosed" /\ pc = "returned" /\ Pos(args.Mb)
        /\ AllNonNeg(args.r) /\ NonDecreasing(args.r))
        => (ret[1] = Zero /\ AllNonNeg(ret) /\ NonDecreasing(ret))

\* C6 witness: a three-point profile that strictly grows after its zero.
C6_Witness ==
    /\ entry = "M_bsds_enclosed" /\ pc = "returned" /\ Pos(args.Mb)
    /\ AllNonNeg(args.r) /\ NonDecreasing(args.r)
    /\ Len(ret) = 3 /\ ret[1] = Zero
    /\ FGreater(ret[2], ret[1]) /\ FGreater(ret[3], ret[2])

\* C7: with every err[i] > 0 the chi-squared is >= 0, and it is 0 exactly
\* when V_tot[i] = Vobs[i] at every grid point.
C7_ChiSquaredSign ==
    (entry \in Scripts /\ ChiDone /\ AllPos(Column(df, "errV"))
        /\ AllNonNeg(V_tot))
        => /\ NonNeg(chi2)
           /\ chi2 = Zero <=>
                 \A i \in 1..Len(V_tot) : V_tot[i] = Column(df, "Vobs")[i]

\* C7 witness: a two-row fit that is exact, chi2 = 0.
C7_Witness ==
    /\ entry \in Scripts /\ ChiDone /\ AllPos(Column(df, "errV"))
    /\ Len(V_tot) = 2 /\ AllPos(V_tot)
    /\ chi2 = Zero

\* the enclosed mass of the call's grid, as V_bsds computes it
CallMenc == M_bsds_enclosed(args.r, args.Mb, args.rs, args.n)

\* C8: given a non-negative enclosed mass, V_bsds divides by a strictly
\* positive r_safe, does not raise, and returns finite non-negative
\* velocities, 0 at a first grid point r[0] = 0.
C8_VelocityAtZeroRadius ==
    (entry = "V_bsds" /\ Ended /\ ~args.k0.given
        /\ CallMenc.exc = "none" /\ AllNonNeg(CallMenc.val))
        => /\ pc = "returned"
           /\ AllPos(r_safe(args.r))
           /\ AllNonNeg(ret)
           /\ (Len(args.r) >= 1 /\ args.r[1] = Zero) => ret[1] = Zero

\* C8 witness: a grid through r = 0 whose later velocity is positive.
C8_Witness ==
    /\ entry = "V_bsds" /\ pc = "returned"
    /\ Len(args.r) = 3 /\ args.r[2] = Zero
    /\ AllNonNeg(CallMenc.val)
    /\ ret[2] = Zero /\ Pos(ret[3])

C10_RunsToCompletion ==
    (entry = "run_bsds" /\ Ended) =>
        IF ~disk.exists
        THEN exc = "FileNotFoundError" /\ df = NoTable /\ fig = "none"
                 /\ written = {}
        ELSE Pos(args.Mb) =>
                 /\ pc = "returned"
                 /\ ret = <<Replace(args.filename, ".dat", "_BSDS.png"), chi2>>
                 /\ written = IF args.save THEN {ret[1]} ELSE {}
====
